---------------------------- MODULE Spec2Model ----------------------------
(***************************************************************************)
(* A model of the evosim world-update engine (src/src/lib.rs): the entity  *)
(* registry (World), target resolution, and the per-tick creature update   *)
(* (hunger decay, behaviour selection, arrival steering, boundary          *)
(* repulsion, facing update).                                              *)
(*                                                                         *)
(* Numbers.  An f32 is a fixed-point integer with quantum 1/Scale.         *)
(* Products and quotients truncate toward zero and Sqrt rounds up, so the  *)
(* rounding of an operation never lengthens a vector.  Every intermediate  *)
(* product is split so that it stays inside 32 bits.  An angle is an       *)
(* integer multiple of pi/12 (15 degrees).                                 *)
(*                                                                         *)
(* An operator that uses an argument more than once first binds it to its  *)
(* value (CHOOSE r \in { ... : v \in {a} } : TRUE is `let v = a; ...`):    *)
(* TLC evaluates an argument anew at every use when it computes ENABLED,   *)
(* which the fairness condition of SpecLive makes it do.                   *)
(***************************************************************************)
EXTENDS Integers, Sequences, FiniteSets, TLC

(***************************************************************************)
(* Fixed-point arithmetic                                                  *)
(***************************************************************************)
Scale == 10 * 10 * 10

Abs(a) == IF a < 0 THEN -a ELSE a

Min(a, b) == IF a < b THEN a ELSE b

Max(a, b) == IF a < b THEN b ELSE a

\* a / b on integers, truncated toward zero (b > 0)
TDiv(a, b) == IF a >= 0 THEN a \div b ELSE -((-a) \div b)

\* |a| * |b| / Scale, truncated, without forming a * b
MulMag(a, b) == (a \div Scale) * b + (((a % Scale) * b) \div Scale)

\* the f32 product a * b
MulFix(a, b) ==
    CHOOSE r \in
        { IF (p < 0) = (q < 0) THEN MulMag(Abs(p), Abs(q)) ELSE -MulMag(Abs(p), Abs(q)) :
            p \in {a}, q \in {b} } : TRUE

\* |a| * Scale / b, truncated, without forming a * Scale (b > 0)
DivMag(a, b) == (a \div b) * Scale + (((a % b) * Scale) \div b)

\* the f32 quotient a / b (b > 0)
DivFix(a, b) ==
    CHOOSE r \in
        { IF p >= 0 THEN DivMag(p, q) ELSE -DivMag(-p, q) : p \in {a}, q \in {b} } : TRUE

\* f32::clamp
Clamp(a, lo, hi) ==
    CHOOSE r \in { IF p < lo THEN lo ELSE IF p > hi THEN hi ELSE p : p \in {a} } : TRUE

\* floor(r * r / Scale), exactly
SquareFloor(r) ==
    LET q == r \div Scale
        m == r % Scale
    IN  q * q * Scale + 2 * q * m + ((m * m) \div Scale)

RECURSIVE SqrtSearch(_, _, _)
\* the least r in lo..hi with r * r >= x * Scale
\* (a, l, h are x, lo, hi as values, so that each step of the search
\* evaluates its arguments once)
SqrtSearch(x, lo, hi) ==
    CHOOSE r \in
        { IF l >= h THEN h
          ELSE IF SquareFloor((l + h) \div 2) >= a
               THEN SqrtSearch(a, l, (l + h) \div 2)
               ELSE SqrtSearch(a, (l + h) \div 2 + 1, h) :
            a \in {x}, l \in {lo}, h \in {hi} } : TRUE

SqrtLimit == 1400 * Scale

\* f32::sqrt
Sqrt(x) ==
    CHOOSE r \in
        { IF a <= 0 THEN 0 ELSE SqrtSearch(a, 1, Min(Max(a, Scale), SqrtLimit)) :
            a \in {x} } : TRUE

(***************************************************************************)
(* Vec2 (glam)                                                             *)
(***************************************************************************)
Vec(x, y) == [x |-> x, y |-> y]

ZERO == Vec(0, 0)

VAdd(a, b) == Vec(a.x + b.x, a.y + b.y)

VSub(a, b) == Vec(a.x - b.x, a.y - b.y)

\* Vec2 * f32
VScale(a, k) ==
    CHOOSE r \in { Vec(MulFix(v.x, s), MulFix(v.y, s)) : v \in {a}, s \in {k} } : TRUE

\* Vec2 / f32
VDiv(a, k) ==
    CHOOSE r \in { Vec(DivFix(v.x, s), DivFix(v.y, s)) : v \in {a}, s \in {k} } : TRUE

LengthSquared(a) ==
    CHOOSE r \in { MulFix(v.x, v.x) + MulFix(v.y, v.y) : v \in {a} } : TRUE

Length(a) == Sqrt(LengthSquared(a))

Distance(a, b) == Length(VSub(a, b))

\* Vec2::normalize, on a vector that is not zero
Normalize(a) == CHOOSE r \in { VDiv(v, Length(v)) : v \in {a} } : TRUE

NormalizeOrZero(a) ==
    CHOOSE r \in
        { IF n = 0 THEN ZERO ELSE VDiv(v, n) : v \in {a}, n \in {Length(a)} } : TRUE

\* Vec2::clamp_length_max
ClampLengthMax(a, max) ==
    CHOOSE r \in
        { IF LengthSquared(v) > MulFix(m, m)
          THEN VScale(VDiv(v, Sqrt(LengthSquared(v))), m)
          ELSE v : v \in {a}, m \in {max} } : TRUE

(***************************************************************************)
(* Angles: f32 radians in units of pi/12                                   *)
(***************************************************************************)
HalfTurn == 12

CosTable ==
    << 1000, 966, 866, 707, 500, 259, 0, -259, -500, -707, -866, -966,
       -1000, -966, -866, -707, -500, -259, 0, 259, 500, 707, 866, 966 >>

\* f32::cos
Cos(a) == CosTable[(a % (2 * HalfTurn)) + 1]

\* f32::sin
Sin(a) == Cos(a - (HalfTurn \div 2))

\* f32::atan2: the angle in (-pi, pi] whose direction is nearest to (x, y)
Atan2(y, x) ==
    CHOOSE k \in (1 - HalfTurn)..HalfTurn :
        \E a \in {x}, b \in {y} :
            \A j \in (1 - HalfTurn)..HalfTurn :
                a * Cos(k) + b * Sin(k) >= a * Cos(j) + b * Sin(j)

(***************************************************************************)
(* Target and Option<Target>                                               *)
(***************************************************************************)
NoTarget == [kind |-> "None", id |-> 0, pos |-> ZERO]

Food(i) == [kind |-> "Food", id |-> i, pos |-> ZERO]

CreatureRef(i) == [kind |-> "Creature", id |-> i, pos |-> ZERO]

Position(p) == [kind |-> "Position", id |-> 0, pos |-> p]

\* Option<Vec2>
NoneVec == [some |-> FALSE, val |-> ZERO]

SomeVec(p) == [some |-> TRUE, val |-> p]

\* mutant of TargetPosition: a missing id resolves to the origin
TargetPosition_default(target, w) ==
    CASE target.kind = "Creature" ->
            IF target.id \in DOMAIN w.creatures
            THEN SomeVec(w.creatures[target.id].position) ELSE SomeVec(ZERO)
      [] target.kind = "Food" ->
            IF target.id \in DOMAIN w.food_sources
            THEN SomeVec(w.food_sources[target.id].position) ELSE SomeVec(ZERO)
      [] OTHER -> SomeVec(target.pos)

\* Target::position, on a target that is Some
TargetPosition(target, w) ==
    CASE target.kind = "Creature" ->
            IF target.id \in DOMAIN w.creatures
            THEN SomeVec(w.creatures[target.id].position) ELSE NoneVec
      [] target.kind = "Food" ->
            IF target.id \in DOMAIN w.food_sources
            THEN SomeVec(w.food_sources[target.id].position) ELSE NoneVec
      [] OTHER -> SomeVec(target.pos)

(***************************************************************************)
(* Params, Bounds                                                          *)
(***************************************************************************)
DefaultParams ==
    [ window_width  |-> 600 * Scale,
      window_height |-> 400 * Scale,
      padding       |-> 20 * Scale,
      timestep      |-> Scale \div 100,
      damping       |-> (9 * Scale) \div 10 ]

WindowBounds ==
    [ x_min |-> 0, x_max |-> DefaultParams.window_width,
      y_min |-> 0, y_max |-> DefaultParams.window_height ]

(***************************************************************************)
(* Numerics                                                                *)
(***************************************************************************)
\* the f32 quotient a / b, b of either sign and not 0
DivSigned(a, b) == IF b > 0 THEN DivFix(a, b) ELSE DivFix(-a, -b)

\* range_scale
range_scale(v, old_lo, old_hi, new_lo, new_hi) ==
    new_lo + DivSigned(MulFix(v, new_hi - new_lo), old_hi - old_lo)

(***************************************************************************)
(* Creature                                                                *)
(***************************************************************************)
is_hungry(c) == c.hunger <= c.hunger_threshold

distance_to_food(c, food) == Distance(c.position, food.position)

square_speed(c) == LengthSquared(c.velocity)

max_speed(c) == MulFix(c.dexterity, 10 * Scale)

acceleration(c) == c.dexterity

\* mutant of update_facing: at rest the facing is reset to 0
update_facing_reset(c) ==
    LET v == NormalizeOrZero(c.velocity)
    IN  [c EXCEPT !.facing = IF v = ZERO THEN 0 ELSE Atan2(v.y, v.x)]

\* Creature::update_facing
update_facing(c) ==
    LET v == NormalizeOrZero(c.velocity)
    IN  [c EXCEPT !.facing = IF v = ZERO THEN c.facing ELSE Atan2(v.y, v.x)]

\* mutant of desired_velocity: the vector to the target is taken backwards
desired_velocity_away(c, to_target) ==
    LET squared_distance    == LengthSquared(to_target)
        acceleration_radius == 525 * Scale
        t            == Clamp(DivFix(squared_distance, acceleration_radius), 0, Scale)
        speed_factor == MulFix(t, 3 * Scale - 2 * t)
        desired_speed == MulFix(max_speed(c), speed_factor)
    IN  VScale(Normalize(VSub(ZERO, to_target)), desired_speed)

\* the velocity move_to_target wants, given the vector to the target
desired_velocity(c, to_target) ==
    LET squared_distance    == LengthSquared(to_target)
        acceleration_radius == 525 * Scale
        t            == Clamp(DivFix(squared_distance, acceleration_radius), 0, Scale)
        speed_factor == MulFix(t, 3 * Scale - 2 * t)
        desired_speed == MulFix(max_speed(c), speed_factor)
    IN  VScale(Normalize(to_target), desired_speed)

\* mutant of steering_clamped: the steering is not clamped
steering_unclamped(c, to_target) == VSub(desired_velocity(c, to_target), c.velocity)

\* the steering move_to_target adds to the velocity
steering_clamped(c, to_target) ==
    LET steering == VSub(desired_velocity(c, to_target), c.velocity)
    IN  ClampLengthMax(steering, acceleration(c))

\* mutant of move_branch: the squared distance is compared with the distance 5
move_branch_distance(c, w) ==
    IF c.movement_target.kind = "None" THEN "none"
    ELSE LET target_pos == TargetPosition(c.movement_target, w)
         IN  IF ~target_pos.some THEN "unresolved"
             ELSE IF LengthSquared(VSub(target_pos.val, c.position)) < 5 * Scale
                  THEN "arrived" ELSE "approach"

\* "none", "unresolved", "arrived" or "approach": the path move_to_target takes
move_branch(c, w) ==
    IF c.movement_target.kind = "None" THEN "none"
    ELSE LET target_pos == TargetPosition(c.movement_target, w)
         IN  IF ~target_pos.some THEN "unresolved"
             ELSE IF LengthSquared(VSub(target_pos.val, c.position)) < 25 * Scale
                  THEN "arrived" ELSE "approach"

\* mutant of move_to_target: a target that does not resolve is removed
move_to_target_forget(c, w) ==
    IF move_branch(c, w) = "none" THEN c
    ELSE IF move_branch(c, w) = "unresolved" THEN [c EXCEPT !.movement_target = NoTarget]
    ELSE IF move_branch(c, w) = "arrived"
         THEN [c EXCEPT !.velocity = ZERO, !.movement_target = NoTarget]
         ELSE LET to_target == VSub(TargetPosition(c.movement_target, w).val, c.position)
                  v1 == VAdd(c.velocity, steering_clamped(c, to_target))
                  v2 == ClampLengthMax(v1, max_speed(c))
              IN  [c EXCEPT !.velocity = v2,
                            !.position = VAdd(c.position, VScale(v2, w.params.timestep))]

\* Creature::move_to_target
move_to_target(c, w) ==
    IF move_branch(c, w) \in {"none", "unresolved"} THEN c
    ELSE IF move_branch(c, w) = "arrived"
         THEN [c EXCEPT !.velocity = ZERO, !.movement_target = NoTarget]
         ELSE LET to_target == VSub(TargetPosition(c.movement_target, w).val, c.position)
                  v1 == VAdd(c.velocity, steering_clamped(c, to_target))
                  v2 == ClampLengthMax(v1, max_speed(c))
              IN  [c EXCEPT !.velocity = v2,
                            !.position = VAdd(c.position, VScale(v2, w.params.timestep))]

(***************************************************************************)
(* Game state updates                                                      *)
(***************************************************************************)
\* mutant of update_hunger: the clamp is missing
update_hunger_unclamped(c) ==
    [c EXCEPT !.hunger =
        c.hunger - (Scale \div 100 + MulFix(c.hunger_rate, square_speed(c)))]

\* mutant of update_hunger: the 0.01 a tick always costs is missing
update_hunger_still(c) ==
    LET h == c.hunger - MulFix(c.hunger_rate, square_speed(c))
    IN  [c EXCEPT !.hunger = Clamp(h, 0, 100 * Scale)]

\* update_hunger
update_hunger(c) ==
    LET h == c.hunger - (Scale \div 100 + MulFix(c.hunger_rate, square_speed(c)))
    IN  [c EXCEPT !.hunger = Clamp(h, 0, 100 * Scale)]

F32Max == 2147483647

RECURSIVE nearest_food_last(_, _, _, _)
\* mutant of nearest_food: `distance = food_dist` is missing
nearest_food_last(c, w, order, best) ==
    IF order = << >> THEN best[2]
    ELSE LET food_dist == distance_to_food(c, w.food_sources[Head(order)])
         IN  IF food_dist < best[1]
             THEN nearest_food_last(c, w, Tail(order), <<best[1], <<Head(order)>> >>)
             ELSE nearest_food_last(c, w, Tail(order), best)

RECURSIVE nearest_food(_, _, _, _)
\* the loop of find_food over the food sources in iteration order `order`;
\* best is <<distance, nearest_food>>, nearest_food being <<>> (None) or <<id>>
nearest_food(c, w, order, best) ==
    IF order = << >> THEN best[2]
    ELSE LET food_dist == distance_to_food(c, w.food_sources[Head(order)])
         IN  IF food_dist < best[1]
             THEN nearest_food(c, w, Tail(order), <<food_dist, <<Head(order)>> >>)
             ELSE nearest_food(c, w, Tail(order), best)

\* mutant of find_food: with nothing found the target is the food source 0
find_food_unwrap(c, w, order) ==
    LET found == nearest_food(c, w, order, <<F32Max, << >> >>)
    IN  [c EXCEPT !.movement_target = Food(IF found # << >> THEN found[1] ELSE 0)]

find_food(c, w, order) ==
    LET found == nearest_food(c, w, order, <<F32Max, << >> >>)
    IN  IF found # << >> THEN [c EXCEPT !.movement_target = Food(found[1])] ELSE c

\* mutant of find_random_walk_target: the early return is missing
find_random_walk_target_always(c, distance, angle) ==
    LET a  == angle + c.facing
        dx == MulFix(distance, Cos(a))
        dy == MulFix(distance, Sin(a))
    IN  [c EXCEPT !.movement_target = Position(VAdd(c.position, Vec(dx, dy)))]

\* distance and angle are the two draws from the rng
find_random_walk_target(c, distance, angle) ==
    IF c.movement_target.kind # "None" THEN c
    ELSE LET a  == angle + c.facing
             dx == MulFix(distance, Cos(a))
             dy == MulFix(distance, Sin(a))
         IN  [c EXCEPT !.movement_target = Position(VAdd(c.position, Vec(dx, dy)))]

\* mutant of bc_force: near the upper bound the force is added, not subtracted
bc_force_outward(p, lo, hi, padding) ==
    IF p < lo + padding THEN padding - Max(p - lo, Scale)
    ELSE IF p > hi - padding THEN padding - Max(hi - p, Scale)
    ELSE 0

\* the force of apply_bc on one axis
bc_force(p, lo, hi, padding) ==
    IF p < lo + padding THEN padding - Max(p - lo, Scale)
    ELSE IF p > hi - padding THEN -(padding - Max(hi - p, Scale))
    ELSE 0

\* mutant of apply_bc: the position is not advanced a second time
apply_bc_velocity_only(c, w) ==
    LET force == Vec(bc_force(c.position.x, w.bounds.x_min, w.bounds.x_max, w.params.padding),
                     bc_force(c.position.y, w.bounds.y_min, w.bounds.y_max, w.params.padding))
        v == VAdd(c.velocity, VScale(VScale(force, w.params.timestep), w.params.damping))
    IN  [c EXCEPT !.velocity = v]

\* apply_bc
apply_bc(c, w) ==
    LET force == Vec(bc_force(c.position.x, w.bounds.x_min, w.bounds.x_max, w.params.padding),
                     bc_force(c.position.y, w.bounds.y_min, w.bounds.y_max, w.params.padding))
        v == VAdd(c.velocity, VScale(VScale(force, w.params.timestep), w.params.damping))
    IN  [c EXCEPT !.velocity = v,
                  !.position = VAdd(c.position, VScale(v, w.params.timestep))]

\* mutant of update_food_sources: every food source loses one unit
update_food_sources_deplete(fs) ==
    [i \in DOMAIN fs |-> [fs[i] EXCEPT !.amount = fs[i].amount - Scale]]

\* update_food_sources: its loop body is empty
update_food_sources(fs) == [i \in DOMAIN fs |-> fs[i]]

(***************************************************************************)
(* Inputs: the creatures and food sources a caller hands to World::new,    *)
(* add_creature and add_food_source, and the draws of the rng              *)
(***************************************************************************)
MaxCreatures == 2

MaxFoodSources == 2

MaxTicks == 2

\* an id no entity of a bounded run ever gets
DanglingId == MaxCreatures + MaxFoodSources + 1

Pt(x, y) == Vec(x * Scale, y * Scale)

Being(position, velocity, hunger, hunger_threshold, dexterity, target) ==
    [ position |-> position, velocity |-> velocity, facing |-> 0,
      strength |-> Scale, dexterity |-> dexterity,
      hunger |-> hunger, hunger_threshold |-> hunger_threshold,
      hunger_rate |-> Scale \div 20, color |-> "WHITE",
      movement_target |-> target ]

CreaturePool ==
    { \* starving at the left wall, at rest, no target
      Being(Pt(0, 200), ZERO, 0, 50 * Scale, Scale, NoTarget),
      \* in the middle, at rest, no target, about to get hungry: wanders first
      Being(Pt(300, 200), ZERO, 50 * Scale + 15, 50 * Scale, Scale, NoTarget),
      \* at full speed at the left wall, about to get hungry, holding a food id
      \* that was never in the registry
      Being(Pt(0, 200), Pt(10, 0), 30 * Scale + 20, 25 * Scale, Scale, Food(DanglingId)),
      \* about to get hungry, chasing the entity with id 0
      Being(Pt(3, 200), Pt(2, 0), 50 * Scale + 300, 50 * Scale, Scale, CreatureRef(0)),
      \* nimble and over-fed, in the far corner, heading for the middle
      Being(Pt(590, 390), Pt(0, 3), 150 * Scale, 50 * Scale, 2 * Scale, Position(Pt(300, 200))),
      \* content, a fixed point at distance 5: reached in the second tick
      Being(Pt(50, 50), Pt(3, 4), 80 * Scale, 50 * Scale, Scale, Position(Pt(53, 54))) }

FoodAt(position) ==
    [position |-> position, max_amount |-> 100 * Scale, amount |-> 100 * Scale]

FoodPool == { FoodAt(Pt(300, 200)), FoodAt(Pt(288, 284)), FoodAt(Pt(3, 204)) }

\* rng.random_range(10.0..80.0)
RandDistances == { 10 * Scale, 80 * Scale - 1 }

\* rng.random_range(-PI / 6.0..PI / 6.0)
RandAngles == { -(HalfTurn \div 6), (HalfTurn \div 6) - 1 }

SeqsUpTo(S, n) == UNION { [1..k -> S] : k \in 0..n }

\* the orders in which a HashMap may yield the keys S
Orders(S) ==
    { o \in [1..Cardinality(S) -> S] : \A i, j \in 1..Cardinality(S) : o[i] = o[j] => i = j }

(***************************************************************************)
(* State                                                                   *)
(***************************************************************************)
VARIABLES
    next_id, creatures, food_sources, params, bounds,  \* World
    arg_creatures, arg_food_sources,  \* World::new: the lists not yet inserted
    ret,                              \* the id the last add_* call returned
    pc,                               \* where the program is
    creature_ids, id, creature,       \* update_creatures: the loop's locals
    tick_start,                       \* history: creatures when the tick began
    ticks,                            \* history: ticks made so far
    scale_args, scale_ret             \* range_scale: its arguments, its result

vars == << next_id, creatures, food_sources, params, bounds, arg_creatures,
           arg_food_sources, ret, pc, creature_ids, id, creature, tick_start,
           ticks, scale_args, scale_ret >>

\* the variables of a call of range_scale, which update_world never makes
scale_vars == << scale_args, scale_ret >>

\* no call of range_scale is under way
NoScale == [v |-> 0, old_lo |-> 0, old_hi |-> 0, new_lo |-> 0, new_hi |-> 0]

world ==
    [ next_id |-> next_id, creatures |-> creatures, food_sources |-> food_sources,
      params |-> params, bounds |-> bounds ]

Put(map, k, v) == [i \in DOMAIN map \cup {k} |-> IF i = k THEN v ELSE map[i]]

\* World::new up to its first loop
Init ==
    /\ next_id = 0
    /\ creatures = << >>
    /\ food_sources = << >>
    /\ params = DefaultParams
    /\ bounds = WindowBounds
    /\ arg_creatures \in SeqsUpTo(CreaturePool, MaxCreatures)
    /\ arg_food_sources \in SeqsUpTo(FoodPool, MaxFoodSources)
    /\ ret = -1
    /\ pc = "new"
    /\ creature_ids = << >>
    /\ id = 0
    /\ creature = Being(ZERO, ZERO, 0, 0, 0, NoTarget)
    /\ tick_start = << >>
    /\ ticks = 0
    /\ scale_args = NoScale
    /\ scale_ret = 0

\* World::add_creature
add_creature(c) ==
    /\ ret' = next_id
    /\ next_id' = next_id + 1
    /\ creatures' = Put(creatures, next_id, c)
    /\ UNCHANGED food_sources

\* mutant of add_food_source: next_id is not advanced
add_food_source_stale(f) ==
    /\ ret' = next_id
    /\ next_id' = next_id
    /\ food_sources' = Put(food_sources, next_id, f)
    /\ UNCHANGED creatures

\* World::add_food_source
add_food_source(f) ==
    /\ ret' = next_id
    /\ next_id' = next_id + 1
    /\ food_sources' = Put(food_sources, next_id, f)
    /\ UNCHANGED creatures

\* World::new: one turn of `for creature in creatures`
NewCreature ==
    /\ pc = "new"
    /\ arg_creatures # << >>
    /\ add_creature(Head(arg_creatures))
    /\ arg_creatures' = Tail(arg_creatures)
    /\ UNCHANGED scale_vars
    /\ UNCHANGED << params, bounds, arg_food_sources, pc, creature_ids, id,
                    creature, tick_start, ticks >>

\* World::new: one turn of `for food_source in food_sources`
NewFoodSource ==
    /\ pc = "new"
    /\ arg_creatures = << >>
    /\ arg_food_sources # << >>
    /\ add_food_source(Head(arg_food_sources))
    /\ arg_food_sources' = Tail(arg_food_sources)
    /\ UNCHANGED scale_vars
    /\ UNCHANGED << params, bounds, arg_creatures, pc, creature_ids, id,
                    creature, tick_start, ticks >>

\* World::new returns the world
NewReturn ==
    /\ pc = "new"
    /\ arg_creatures = << >>
    /\ arg_food_sources = << >>
    /\ pc' = "idle"
    /\ UNCHANGED scale_vars
    /\ UNCHANGED << next_id, creatures, food_sources, params, bounds, arg_creatures,
                    arg_food_sources, ret, creature_ids, id, creature, tick_start,
                    ticks >>

\* a caller's world.add_creature(c)
AddCreature ==
    /\ pc = "idle"
    /\ ticks < MaxTicks
    /\ Cardinality(DOMAIN creatures) < MaxCreatures
    /\ \E c \in CreaturePool : add_creature(c)
    /\ UNCHANGED scale_vars
    /\ UNCHANGED << params, bounds, arg_creatures, arg_food_sources, pc,
                    creature_ids, id, creature, tick_start, ticks >>

\* a caller's world.add_food_source(f)
AddFoodSource ==
    /\ pc = "idle"
    /\ ticks < MaxTicks
    /\ Cardinality(DOMAIN food_sources) < MaxFoodSources
    /\ \E f \in FoodPool : add_food_source(f)
    /\ UNCHANGED scale_vars
    /\ UNCHANGED << params, bounds, arg_creatures, arg_food_sources, pc,
                    creature_ids, id, creature, tick_start, ticks >>

\* update_world: update_food_sources, then update_creatures up to its loop
UpdateWorld ==
    /\ pc = "idle"
    /\ ticks < MaxTicks
    /\ food_sources' = update_food_sources(food_sources)
    /\ creature_ids' \in Orders(DOMAIN creatures)
    /\ tick_start' = creatures
    /\ pc' = "loop"
    /\ UNCHANGED scale_vars
    /\ UNCHANGED << next_id, creatures, params, bounds, arg_creatures,
                    arg_food_sources, ret, id, creature, ticks >>

\* `for id in creature_ids`: let mut creature = world.creatures[&id]
LoopFetch ==
    /\ pc = "loop"
    /\ creature_ids # << >>
    /\ id' = Head(creature_ids)
    /\ creature' = creatures[Head(creature_ids)]
    /\ creature_ids' = Tail(creature_ids)
    /\ pc' = "update_hunger"
    /\ UNCHANGED scale_vars
    /\ UNCHANGED << next_id, creatures, food_sources, params, bounds, arg_creatures,
                    arg_food_sources, ret, tick_start, ticks >>

\* the loop is over: update_creatures and update_world return
LoopExit ==
    /\ pc = "loop"
    /\ creature_ids = << >>
    /\ pc' = "idle"
    /\ ticks' = ticks + 1
    /\ UNCHANGED scale_vars
    /\ UNCHANGED << next_id, creatures, food_sources, params, bounds, arg_creatures,
                    arg_food_sources, ret, creature_ids, id, creature, tick_start >>

\* a step of the loop body that only rewrites the local creature
Local(from, to, c) ==
    /\ pc = from
    /\ creature' = c
    /\ pc' = to
    /\ UNCHANGED scale_vars
    /\ UNCHANGED << next_id, creatures, food_sources, params, bounds, arg_creatures,
                    arg_food_sources, ret, creature_ids, id, tick_start, ticks >>

UpdateHunger == Local("update_hunger", "select", update_hunger(creature))

FindFood ==
    /\ is_hungry(creature)
    /\ \E order \in Orders(DOMAIN food_sources) :
          Local("select", "move_to_target", find_food(creature, world, order))

FindRandomWalkTarget ==
    /\ ~is_hungry(creature)
    /\ \E distance \in RandDistances, angle \in RandAngles :
          Local("select", "move_to_target",
                find_random_walk_target(creature, distance, angle))

MoveToTarget == Local("move_to_target", "apply_bc", move_to_target(creature, world))

ApplyBc == Local("apply_bc", "update_facing", apply_bc(creature, world))

UpdateFacing == Local("update_facing", "insert", update_facing(creature))

\* world.creatures.insert(id, creature)
Insert ==
    /\ pc = "insert"
    /\ creatures' = Put(creatures, id, creature)
    /\ pc' = "loop"
    /\ UNCHANGED scale_vars
    /\ UNCHANGED << next_id, food_sources, params, bounds, arg_creatures,
                    arg_food_sources, ret, creature_ids, id, creature, tick_start,
                    ticks >>

Next ==
    \/ NewCreature
    \/ NewFoodSource
    \/ NewReturn
    \/ AddCreature
    \/ AddFoodSource
    \/ UpdateWorld
    \/ LoopFetch
    \/ LoopExit
    \/ UpdateHunger
    \/ FindFood
    \/ FindRandomWalkTarget
    \/ MoveToTarget
    \/ ApplyBc
    \/ UpdateFacing
    \/ Insert

Spec == Init /\ [][Next]_vars

(***************************************************************************)
(* The boundary force over the window: a world of one creature placed on   *)
(* a grid of positions that has every zone of apply_bc and the edges of    *)
(* the zones on both axes.  The creature is at rest, content, and holds a  *)
(* food id that was never in the registry, so that nothing but apply_bc    *)
(* moves it.                                                               *)
(***************************************************************************)
\* the coordinates tried on an axis whose bounds are lo and hi
AxisPoints(lo, hi, padding) ==
    { lo, lo + Scale \div 2, lo + Scale, lo + padding \div 2, lo + padding - 1,
      lo + padding, (lo + hi) \div 2, hi - padding, hi - padding + 1,
      hi - padding \div 2, hi - Scale, hi }

GridPool ==
    { Being(Vec(x, y), ZERO, 100 * Scale, 50 * Scale, Scale, Food(DanglingId)) :
        x \in AxisPoints(WindowBounds.x_min, WindowBounds.x_max, DefaultParams.padding),
        y \in AxisPoints(WindowBounds.y_min, WindowBounds.y_max, DefaultParams.padding) }

\* World::new of one creature of the grid
InitRepel ==
    /\ next_id = 0
    /\ creatures = << >>
    /\ food_sources = << >>
    /\ params = DefaultParams
    /\ bounds = WindowBounds
    /\ arg_creatures \in { <<c>> : c \in GridPool }
    /\ arg_food_sources = << >>
    /\ ret = -1
    /\ pc = "new"
    /\ creature_ids = << >>
    /\ id = 0
    /\ creature = Being(ZERO, ZERO, 0, 0, 0, NoTarget)
    /\ tick_start = << >>
    /\ ticks = 0
    /\ scale_args = NoScale
    /\ scale_ret = 0

\* World::new and update_world on that world
NextRepel ==
    \/ NewCreature
    \/ NewReturn
    \/ UpdateWorld
    \/ LoopFetch
    \/ LoopExit
    \/ UpdateHunger
    \/ FindRandomWalkTarget
    \/ MoveToTarget
    \/ ApplyBc
    \/ UpdateFacing
    \/ Insert

SpecRepel == InitRepel /\ [][NextRepel]_vars

(***************************************************************************)
(* range_scale, called by a user of the library on arguments of its own    *)
(***************************************************************************)
\* the values tried for v
ScaleValues == { 0, 5 * Scale, 10 * Scale, 15 * Scale, 20 * Scale }

\* the intervals tried for [old_lo, old_hi]: from 0 and not, one reversed
OldIntervals == { <<0, 20 * Scale>>, <<10 * Scale, 20 * Scale>>,
                  <<5 * Scale, 15 * Scale>>, <<10 * Scale, 5 * Scale>> }

\* the intervals tried for [new_lo, new_hi]
NewIntervals == { <<0, 200 * Scale>>, <<100 * Scale, 200 * Scale>>,
                  <<100 * Scale, 50 * Scale>>, <<-50 * Scale, 50 * Scale>> }

\* a world with nothing in it, and a call of range_scale about to be made
InitScale ==
    /\ next_id = 0
    /\ creatures = << >>
    /\ food_sources = << >>
    /\ params = DefaultParams
    /\ bounds = WindowBounds
    /\ arg_creatures = << >>
    /\ arg_food_sources = << >>
    /\ ret = -1
    /\ pc = "range_scale"
    /\ creature_ids = << >>
    /\ id = 0
    /\ creature = Being(ZERO, ZERO, 0, 0, 0, NoTarget)
    /\ tick_start = << >>
    /\ ticks = 0
    /\ \E v \in ScaleValues, old \in OldIntervals, new \in NewIntervals :
          scale_args = [v |-> v, old_lo |-> old[1], old_hi |-> old[2],
                        new_lo |-> new[1], new_hi |-> new[2]]
    /\ scale_ret = 0

\* the call returns
RangeScale ==
    /\ pc = "range_scale"
    /\ scale_ret' = range_scale(scale_args.v, scale_args.old_lo, scale_args.old_hi,
                                scale_args.new_lo, scale_args.new_hi)
    /\ pc' = "range_scale_done"
    /\ UNCHANGED << next_id, creatures, food_sources, params, bounds, arg_creatures,
                    arg_food_sources, ret, creature_ids, id, creature, tick_start,
                    ticks, scale_args >>

NextScale == RangeScale

SpecScale == InitScale /\ [][NextScale]_vars

(***************************************************************************)
(* The main loop: update_world is called once per frame, for ever.  One    *)
(* creature that is content and about to get hungry, and up to             *)
(* MaxFoodSources food sources.  The history variable ticks stops at       *)
(* MaxTicks.                                                               *)
(***************************************************************************)
LivePool ==
    { \* in the middle, at rest, no target, hungry within a few ticks
      Being(Pt(300, 200), ZERO, Scale \div 20 + 30, Scale \div 20, Scale, NoTarget),
      \* the same with hunger_threshold 0: hungry when hunger reaches 0
      Being(Pt(300, 200), ZERO, 30, 0, Scale, NoTarget),
      \* on its way to a fixed point, hungry after the first tick
      Being(Pt(297, 196), Pt(3, 4), Scale, Scale \div 2, Scale, Position(Pt(300, 200))) }

LiveFoodPool == { FoodAt(Pt(300, 200)), FoodAt(Pt(303, 204)) }

\* World::new of one creature of LivePool and up to MaxFoodSources food sources
InitLive ==
    /\ next_id = 0
    /\ creatures = << >>
    /\ food_sources = << >>
    /\ params = DefaultParams
    /\ bounds = WindowBounds
    /\ arg_creatures \in { <<c>> : c \in LivePool }
    /\ arg_food_sources \in SeqsUpTo(LiveFoodPool, MaxFoodSources)
    /\ ret = -1
    /\ pc = "new"
    /\ creature_ids = << >>
    /\ id = 0
    /\ creature = Being(ZERO, ZERO, 0, 0, 0, NoTarget)
    /\ tick_start = << >>
    /\ ticks = 0
    /\ scale_args = NoScale
    /\ scale_ret = 0

\* update_world, called by the frame loop: update_food_sources, then
\* update_creatures up to its loop
UpdateWorldFrame ==
    /\ pc = "idle"
    /\ food_sources' = update_food_sources(food_sources)
    /\ creature_ids' \in Orders(DOMAIN creatures)
    /\ tick_start' = creatures
    /\ pc' = "loop"
    /\ UNCHANGED scale_vars
    /\ UNCHANGED << next_id, creatures, params, bounds, arg_creatures,
                    arg_food_sources, ret, id, creature, ticks >>

\* the loop is over: update_world returns to the frame loop
LoopExitFrame ==
    /\ pc = "loop"
    /\ creature_ids = << >>
    /\ pc' = "idle"
    /\ ticks' = Min(ticks + 1, MaxTicks)
    /\ UNCHANGED scale_vars
    /\ UNCHANGED << next_id, creatures, food_sources, params, bounds, arg_creatures,
                    arg_food_sources, ret, creature_ids, id, creature, tick_start >>

NextLive ==
    \/ NewCreature
    \/ NewFoodSource
    \/ NewReturn
    \/ UpdateWorldFrame
    \/ LoopFetch
    \/ LoopExitFrame
    \/ UpdateHunger
    \/ FindFood
    \/ FindRandomWalkTarget
    \/ MoveToTarget
    \/ ApplyBc
    \/ UpdateFacing
    \/ Insert

\* the frame loop never stops calling update_world, and a call runs to its end
SpecLive == InitLive /\ [][NextLive]_vars /\ WF_vars(NextLive)

(***************************************************************************)
(* Measures the claims use                                                 *)
(***************************************************************************)
\* |v| <= r, as `v.length_squared() <= r * r`
WithinLength(v, r) == LengthSquared(v) <= MulFix(r, r)

\* the world is between two calls of its API
AtRest == pc = "idle"

\* the vector from creature c to its resolved target
ToTarget(c, w) == VSub(TargetPosition(c.movement_target, w).val, c.position)

(***************************************************************************)
(* C1.  Speed bound: after every tick every creature has                   *)
(* |velocity| <= dexterity * 10.  Every creature handed to the world       *)
(* satisfies it; apply_bc adds the boundary force after move_to_target     *)
(* clamped the velocity, and the bound is lost.                            *)
(***************************************************************************)
C1_SpeedBound ==
    AtRest => \A i \in DOMAIN creatures :
                  WithinLength(creatures[i].velocity, max_speed(creatures[i]))

(***************************************************************************)
(* C2.  Snapshot consistency: when a creature steers toward                *)
(* Target::Creature(j), the position it steers toward is creature j's      *)
(* position at the start of the tick.  update_creatures reads the live map *)
(* into which creatures processed earlier in the tick were re-inserted.    *)
(***************************************************************************)
C2_SnapshotConsistency ==
    (/\ pc = "move_to_target"
     /\ creature.movement_target.kind = "Creature"
     /\ creature.movement_target.id \in DOMAIN creatures)
    => TargetPosition(creature.movement_target, world).val
           = tick_start[creature.movement_target.id].position

(***************************************************************************)
(* C3.  Acceleration bound, as claimed: whatever branch move_to_target     *)
(* takes, the velocity after it differs from the velocity before it by at  *)
(* most dexterity.  The arrival branch zeroes a velocity of any size.      *)
(***************************************************************************)
C3_AccelerationBound ==
    [][pc = "move_to_target"
        => WithinLength(VSub(creature'.velocity, creature.velocity),
                        acceleration(creature))]_vars

(***************************************************************************)
(* C3, amended.  move_to_target leaves the velocity alone when there is no *)
(* target or the target does not resolve; on arrival it sets the velocity  *)
(* to zero; on approach it adds a steering of magnitude <= dexterity and   *)
(* then clamps the sum to max speed, so that the velocity changes by at    *)
(* most dexterity whenever the speed on entry was within max speed.        *)
(***************************************************************************)
C3_SteeringBound ==
    [][pc = "move_to_target" =>
        LET branch == move_branch(creature, world)
            dv     == VSub(creature'.velocity, creature.velocity)
        IN  /\ branch \in {"none", "unresolved"} => dv = ZERO
            /\ branch = "arrived" => creature'.velocity = ZERO
            /\ branch = "approach" =>
                  LET s == steering_clamped(creature, ToTarget(creature, world))
                  IN  /\ WithinLength(s, acceleration(creature))
                      /\ creature'.velocity
                            = ClampLengthMax(VAdd(creature.velocity, s), max_speed(creature))
                      /\ WithinLength(creature.velocity, max_speed(creature))
                            => WithinLength(dv, acceleration(creature))]_vars

\* a creature that was over max speed when the tick began has been steered
\* toward a food source
C3_Witness ==
    /\ pc = "apply_bc"
    /\ ~WithinLength(tick_start[id].velocity, max_speed(creature))
    /\ creature.movement_target.kind = "Food"
    /\ creature.velocity # ZERO
    /\ creature.velocity # tick_start[id].velocity

\* a reference to an entity its registry does not hold
Dangling(target) ==
    \/ target.kind = "Food" /\ target.id \notin DOMAIN food_sources
    \/ target.kind = "Creature" /\ target.id \notin DOMAIN creatures

(***************************************************************************)
(* C4.  Dangling target tolerance: Food(id) and Creature(id) with id not a *)
(* key of their map resolve to None, Position(p) resolves to Some(p); and  *)
(* with no target or an unresolved one move_to_target changes neither      *)
(* velocity nor position and goes on to apply_bc.                          *)
(***************************************************************************)
C4_DanglingTargetTolerance ==
    [][pc = "move_to_target" =>
        LET target == creature.movement_target
        IN  /\ Dangling(target) => TargetPosition(target, world) = NoneVec
            /\ target.kind = "Position"
                  => TargetPosition(target, world) = SomeVec(target.pos)
            /\ (target = NoTarget \/ Dangling(target))
                  => /\ creature'.velocity = creature.velocity
                     /\ creature'.position = creature.position
                     /\ pc' = "apply_bc"]_vars

\* a moving creature came through move_to_target with a dangling creature id
C4_Witness ==
    /\ pc = "apply_bc"
    /\ Dangling(creature.movement_target)
    /\ creature.movement_target.kind = "Creature"
    /\ creature.velocity # ZERO
    /\ creature.velocity = tick_start[id].velocity

(***************************************************************************)
(* C5.  Arrival snap: when the target resolves to a position at squared    *)
(* distance < 25, move_to_target leaves velocity (0,0), no target and the  *)
(* position as it was; for each kind of target.                            *)
(***************************************************************************)
C5_ArrivalSnap ==
    [][(/\ pc = "move_to_target"
        /\ creature.movement_target # NoTarget
        /\ TargetPosition(creature.movement_target, world).some
        /\ LengthSquared(ToTarget(creature, world)) < 25 * Scale)
       => /\ creature'.velocity = ZERO
          /\ creature'.movement_target = NoTarget
          /\ creature'.position = creature.position]_vars

\* a moving creature that chased a creature has arrived
C5_Witness ==
    /\ pc = "apply_bc"
    /\ tick_start[id].movement_target.kind = "Creature"
    /\ tick_start[id].velocity # ZERO
    /\ creature.movement_target = NoTarget
    /\ creature.velocity = ZERO
    /\ creature.position = tick_start[id].position

\* the hunger a tick leaves a creature that began the tick as c
HungerAfter(c) ==
    Clamp(c.hunger - (Scale \div 100 + MulFix(c.hunger_rate, LengthSquared(c.velocity))),
          0, 100 * Scale)

\* the ids still to be processed in this tick
Elements(seq) == { seq[k] : k \in DOMAIN seq }

(***************************************************************************)
(* C6.  Hunger rule and range: a tick turns each creature's hunger into    *)
(* clamp(hunger - (0.01 + hunger_rate * |velocity|^2), 0, 100), with the   *)
(* hunger and velocity of the start of the tick, once; a creature at rest  *)
(* with hunger in [0, 100] loses exactly 0.01, or all that is left; and    *)
(* every creature a tick has updated has 0 <= hunger <= 100.               *)
(***************************************************************************)
C6_HungerRule ==
    pc \in {"loop", "idle"} =>
        \A i \in DOMAIN tick_start :
            IF i \in Elements(creature_ids)
            THEN creatures[i].hunger = tick_start[i].hunger
            ELSE /\ creatures[i].hunger = HungerAfter(tick_start[i])
                 /\ creatures[i].hunger >= 0
                 /\ creatures[i].hunger <= 100 * Scale
                 /\ (/\ tick_start[i].velocity = ZERO
                     /\ tick_start[i].hunger >= 0
                     /\ tick_start[i].hunger <= 100 * Scale)
                    => creatures[i].hunger
                          = Max(tick_start[i].hunger - Scale \div 100, 0)

\* after a tick: an over-fed creature was clamped to 100, a creature at rest
\* lost 0.01
C6_Witness ==
    /\ AtRest
    /\ \E i \in DOMAIN tick_start :
          /\ tick_start[i].hunger > 100 * Scale
          /\ creatures[i].hunger = 100 * Scale
    /\ \E i \in DOMAIN tick_start :
          /\ tick_start[i].velocity = ZERO
          /\ tick_start[i].hunger > Scale
          /\ creatures[i].hunger = tick_start[i].hunger - Scale \div 100

\* every id in use
Keys == DOMAIN creatures \cup DOMAIN food_sources

\* the ids in use are the ids handed out, each to one registry
C7_IdsState ==
    /\ DOMAIN creatures \cap DOMAIN food_sources = {}
    /\ Keys = 0..(next_id - 1)
    /\ pc = "new" =>
          /\ DOMAIN creatures = 0..(Cardinality(DOMAIN creatures) - 1)
          /\ arg_creatures # << >> => DOMAIN food_sources = {}

\* one call hands out the old next_id and touches nothing already stored
C7_IdsStep ==
    /\ next_id' # next_id \/ ret' # ret \/ DOMAIN creatures' # DOMAIN creatures
          \/ DOMAIN food_sources' # DOMAIN food_sources
       => /\ next_id' = next_id + 1
          /\ ret' = next_id
          /\ \/ DOMAIN creatures' = DOMAIN creatures \cup {next_id}
                /\ DOMAIN food_sources' = DOMAIN food_sources
             \/ DOMAIN food_sources' = DOMAIN food_sources \cup {next_id}
                /\ DOMAIN creatures' = DOMAIN creatures
          /\ \A k \in DOMAIN creatures : creatures'[k] = creatures[k]
          /\ \A k \in DOMAIN food_sources : food_sources'[k] = food_sources[k]
    /\ pc = "new" /\ arg_creatures # << >>
       => /\ next_id \in DOMAIN creatures'
          /\ creatures'[next_id] = Head(arg_creatures)
          /\ arg_creatures' = Tail(arg_creatures)
    /\ pc = "new" /\ arg_creatures = << >> /\ arg_food_sources # << >>
       => /\ next_id \in DOMAIN food_sources'
          /\ food_sources'[next_id] = Head(arg_food_sources)
          /\ arg_food_sources' = Tail(arg_food_sources)

(***************************************************************************)
(* C7.  Identifier allocation: every add returns the old next_id and       *)
(* raises next_id by exactly 1; the keys of creatures and food_sources are *)
(* disjoint and together are exactly the ids below next_id, so no id is    *)
(* handed out twice; World::new inserts the creatures of its list in       *)
(* order from id 0 and then the food sources in order.                     *)
(***************************************************************************)
C7_IdentifierAllocation == []C7_IdsState /\ [][C7_IdsStep]_vars

\* World::new made a creature and two food sources, and a later add_creature
\* got the id after them
C7_Witness ==
    /\ AtRest
    /\ DOMAIN creatures = {0, 3}
    /\ DOMAIN food_sources = {1, 2}
    /\ ret = 3
    /\ next_id = 4

(***************************************************************************)
(* C8.  Nearest-food selection: for a hungry creature and a registry that  *)
(* is not empty, behaviour selection leaves movement_target = Food(id)     *)
(* with id a key of food_sources and no food source strictly closer,       *)
(* whatever the target was.                                                *)
(***************************************************************************)
C8_NearestFood ==
    [][(/\ pc = "select"
        /\ is_hungry(creature)
        /\ DOMAIN food_sources # {})
       => LET target == creature'.movement_target
          IN  /\ target.kind = "Food"
              /\ target.id \in DOMAIN food_sources
              /\ \A f \in DOMAIN food_sources :
                    ~(Distance(creature.position, food_sources[f].position)
                        < Distance(creature.position, food_sources[target.id].position))
              /\ pc' = "move_to_target"]_vars

\* a hungry creature that held a fixed point now holds the nearer of two food
\* sources
C8_Witness ==
    /\ pc = "move_to_target"
    /\ is_hungry(creature)
    /\ creatures[id].movement_target.kind = "Position"
    /\ creature.movement_target.kind = "Food"
    /\ creature.movement_target.id \in DOMAIN food_sources
    /\ \E f \in DOMAIN food_sources :
          Distance(creature.position, food_sources[f].position)
             > Distance(creature.position,
                        food_sources[creature.movement_target.id].position)

(***************************************************************************)
(* C9.  Empty food registry: a hungry creature updated while food_sources  *)
(* is empty comes out of find_food as it went in, and the tick goes on; a  *)
(* creature with no target then gets no steering.                          *)
(***************************************************************************)
C9_EmptyRegistry ==
    [][/\ (pc = "select" /\ is_hungry(creature) /\ DOMAIN food_sources = {})
          => creature' = creature /\ pc' = "move_to_target"
       /\ (/\ pc = "move_to_target"
           /\ is_hungry(creature)
           /\ DOMAIN food_sources = {}
           /\ creature.movement_target = NoTarget)
          => creature' = creature /\ pc' = "apply_bc"]_vars

\* a hungry creature with no target came through selection and steering with
\* no food source in the world
C9_Witness ==
    /\ pc = "apply_bc"
    /\ is_hungry(creature)
    /\ DOMAIN food_sources = {}
    /\ tick_start[id].movement_target = NoTarget
    /\ creature.movement_target = NoTarget
    /\ creature.velocity = tick_start[id].velocity

\* every creature of the first tick has been re-inserted
FirstTickOver == pc = "loop" /\ creature_ids = << >> /\ ticks = 0

\* the world of the end-to-end scenario: creature c, food source f
Scenario(c, f) ==
    /\ params = DefaultParams
    /\ bounds = WindowBounds
    /\ DOMAIN tick_start = {c}
    /\ tick_start[c] = Being(Pt(0, 200), ZERO, 0, 50 * Scale, Scale, NoTarget)
    /\ DOMAIN food_sources = {f}
    /\ food_sources[f] = FoodAt(Pt(300, 200))

(***************************************************************************)
(* C10.  First tick, end to end: one food source at (300,200), one         *)
(* creature at (0,200) with hunger 0, threshold 50, dexterity 1, at rest   *)
(* with no target, default Params, bounds (0,0)-(600,400): when the first  *)
(* tick's loop is over the creature holds Food(that id) and its velocity   *)
(* has x > 0, y = 0 and magnitude in (0, 10].                              *)
(***************************************************************************)
C10_FirstTick ==
    FirstTickOver =>
        \A c \in DOMAIN tick_start, f \in DOMAIN food_sources :
            Scenario(c, f) =>
                /\ creatures[c].movement_target = Food(f)
                /\ creatures[c].velocity.x > 0
                /\ creatures[c].velocity.y = 0
                /\ creatures[c].velocity # ZERO
                /\ WithinLength(creatures[c].velocity, 10 * Scale)

\* the scenario's creature holds the food source and moves right
C10_Witness ==
    /\ FirstTickOver
    /\ Scenario(0, 1)
    /\ creatures[0].movement_target = Food(1)
    /\ creatures[0].velocity.x > Scale

\* where a coordinate lies on an axis with bounds lo and hi
InLowZone(p, lo, padding) == p < lo + padding

InHighZone(p, hi, padding) == p > hi - padding

(***************************************************************************)
(* C11.  Boundary repulsion sign: with padding 20 and bounds wider than    *)
(* twice the padding, the force of apply_bc on an axis is > 0 at the       *)
(* minimum bound and anywhere below min + padding, < 0 at the maximum      *)
(* bound and anywhere above max - padding, and 0 from min + padding to     *)
(* max - padding; each axis by its own coordinate only; and the velocity   *)
(* gains force * timestep * damping.                                       *)
(***************************************************************************)
C11_RepulsionSign ==
    [][pc = "apply_bc" =>
        LET p  == creature.position
            fx == bc_force(p.x, bounds.x_min, bounds.x_max, params.padding)
            fy == bc_force(p.y, bounds.y_min, bounds.y_max, params.padding)
            dv == VSub(creature'.velocity, creature.velocity)
        IN  /\ InLowZone(p.x, bounds.x_min, params.padding) => fx > 0 /\ dv.x >= 0
            /\ InHighZone(p.x, bounds.x_max, params.padding) => fx < 0 /\ dv.x <= 0
            /\ (/\ ~InLowZone(p.x, bounds.x_min, params.padding)
                /\ ~InHighZone(p.x, bounds.x_max, params.padding)) => fx = 0 /\ dv.x = 0
            /\ InLowZone(p.y, bounds.y_min, params.padding) => fy > 0 /\ dv.y >= 0
            /\ InHighZone(p.y, bounds.y_max, params.padding) => fy < 0 /\ dv.y <= 0
            /\ (/\ ~InLowZone(p.y, bounds.y_min, params.padding)
                /\ ~InHighZone(p.y, bounds.y_max, params.padding)) => fy = 0 /\ dv.y = 0
            /\ dv = VScale(VScale(Vec(fx, fy), params.timestep), params.damping)]_vars

\* a creature that stood at rest on the maximum x bound, at mid height, has
\* been pushed to the left and not up or down
C11_Witness ==
    /\ pc = "update_facing"
    /\ tick_start[id].position = Vec(bounds.x_max, (bounds.y_min + bounds.y_max) \div 2)
    /\ tick_start[id].velocity = ZERO
    /\ creature.velocity.x < 0
    /\ creature.velocity.y = 0

\* the facing the velocity v gives a creature whose facing was `facing`
FacingOf(v, facing) == IF v = ZERO THEN facing ELSE Atan2(v.y, v.x)

\* every creature this tick has processed faces where its velocity points, or
\* where it faced when the tick began if it is at rest
C12_FacingState ==
    pc \in {"loop", "idle"} =>
        \A i \in DOMAIN tick_start :
            creatures[i].facing =
                IF i \in Elements(creature_ids) THEN tick_start[i].facing
                ELSE FacingOf(creatures[i].velocity, tick_start[i].facing)

\* update_facing writes the facing, from the velocity alone; the other steps
\* of the loop body leave it as it is
C12_FacingStep ==
    /\ pc = "update_facing"
          => /\ creature'.facing = FacingOf(creature.velocity, creature.facing)
             /\ creature'.velocity = creature.velocity
    /\ pc \in {"update_hunger", "select", "move_to_target", "apply_bc"}
          => creature'.facing = creature.facing
    /\ pc = "insert" => creatures'[id].facing = creature.facing

(***************************************************************************)
(* C12.  Facing is derived only from velocity: when the velocity is (0,0)  *)
(* at the facing update the facing after the tick is the facing before     *)
(* it, otherwise it is atan2(velocity.y, velocity.x); hunger decay,        *)
(* find_food, find_random_walk_target, move_to_target and apply_bc do not  *)
(* write facing.                                                           *)
(***************************************************************************)
C12_FacingFromVelocity == []C12_FacingState /\ [][C12_FacingStep]_vars

\* a creature that faced away from angle 0 when the tick began has come to
\* rest and still faces there
C12_Witness ==
    /\ pc = "insert"
    /\ creature.velocity = ZERO
    /\ tick_start[id].velocity # ZERO
    /\ tick_start[id].facing # 0
    /\ creature.facing = tick_start[id].facing

\* the linear remap of [old_lo, old_hi] onto [new_lo, new_hi] at v
LinearRemap(a) ==
    a.new_lo + DivSigned(MulFix(a.v - a.old_lo, a.new_hi - a.new_lo),
                         a.old_hi - a.old_lo)

(***************************************************************************)
(* C13.  range_scale is the linear remap of [old_lo, old_hi] onto          *)
(* [new_lo, new_hi]: whenever old_hi # old_lo the result is                *)
(* new_lo + (v - old_lo) * (new_hi - new_lo) / (old_hi - old_lo), so       *)
(* old_lo goes to new_lo and old_hi to new_hi, also when old_lo is not 0.  *)
(* The code multiplies v, not v - old_lo.                                  *)
(***************************************************************************)
C13_LinearRemap ==
    (pc = "range_scale_done" /\ scale_args.old_hi # scale_args.old_lo)
    => /\ scale_ret = LinearRemap(scale_args)
       /\ scale_args.v = scale_args.old_lo => scale_ret = scale_args.new_lo
       /\ scale_args.v = scale_args.old_hi => scale_ret = scale_args.new_hi

\* the steps of the loop body, which work on the local creature
InBody == pc \in {"update_hunger", "select", "move_to_target", "apply_bc", "update_facing"}

(***************************************************************************)
(* C14.  Content-branch target persistence: for a creature that is content *)
(* after hunger decay, behaviour selection leaves a target that is set     *)
(* (Food, Creature or Position) as it is and replaces None by a            *)
(* Target::Position, so the creature has a target when move_to_target      *)
(* runs; and a target is only ever cleared by the arrival branch of        *)
(* move_to_target, so a wander target is picked only after an arrival or   *)
(* when no target was ever set.                                            *)
(***************************************************************************)
C14_ContentTargetPersistence ==
    [][/\ (pc = "select" /\ ~is_hungry(creature))
          => /\ pc' = "move_to_target"
             /\ creature'.movement_target # NoTarget
             /\ creature.movement_target # NoTarget => creature' = creature
             /\ creature.movement_target = NoTarget
                   => /\ creature'.movement_target.kind = "Position"
                      /\ creature' = [creature EXCEPT
                                         !.movement_target = creature'.movement_target]
       /\ (/\ InBody
           /\ creature.movement_target # NoTarget
           /\ creature'.movement_target = NoTarget)
          => pc = "move_to_target" /\ move_branch(creature, world) = "arrived"]_vars

\* a content creature that arrived at the creature it chased in the first tick
\* has picked a wander target in the second
C14_Witness ==
    /\ pc = "move_to_target"
    /\ ticks = 1
    /\ ~is_hungry(creature)
    /\ creature.velocity # ZERO
    /\ tick_start[id].movement_target = NoTarget
    /\ creature.movement_target.kind = "Position"
    /\ \E j \in DOMAIN creatures :
          /\ j # id
          /\ LengthSquared(VSub(creatures[j].position, creature.position)) < 25 * Scale

\* the creature being processed, as it was when move_to_target was entered,
\* seen from a later step of the loop body: the steps before move_to_target
\* write neither position nor velocity, and move_to_target keeps a target
\* unless it arrives
AtSteering ==
    [creature EXCEPT !.position = tick_start[id].position,
                     !.velocity = tick_start[id].velocity]

\* move_to_target took the approach branch for the creature being processed
Steered ==
    /\ creature.movement_target # NoTarget
    /\ move_branch(AtSteering, world) = "approach"

\* the boundary force at the position of creature c
ForceAt(c) ==
    Vec(bc_force(c.position.x, bounds.x_min, bounds.x_max, params.padding),
        bc_force(c.position.y, bounds.y_min, bounds.y_max, params.padding))

(***************************************************************************)
(* C15.  Two-stage integration: with v1 the velocity after move_to_target  *)
(* and v2 = v1 + force * timestep * damping the velocity after apply_bc,   *)
(* a tick that took the approach branch ends with position =               *)
(* position_start + v1 * timestep + v2 * timestep, and a tick with no      *)
(* steering (no target, target not resolved, arrival) ends with position   *)
(* = position_start + v2 * timestep.                                       *)
(***************************************************************************)
C15_TwoStageIntegration ==
    [][/\ pc \in {"update_hunger", "select"}
          => /\ creature'.position = tick_start[id].position
             /\ creature'.velocity = tick_start[id].velocity
       /\ pc = "move_to_target"
          => /\ move_branch(creature, world) = "approach"
                   => creature'.position
                        = VAdd(creature.position,
                               VScale(creature'.velocity, params.timestep))
             /\ move_branch(creature, world) # "approach"
                   => creature'.position = creature.position
       /\ pc = "apply_bc"
          => LET start == tick_start[id].position
                 v1    == creature.velocity
                 v2    == creature'.velocity
                 first == IF Steered THEN VScale(v1, params.timestep) ELSE ZERO
             IN  /\ v2 = VAdd(v1, VScale(VScale(ForceAt(creature), params.timestep),
                                         params.damping))
                 /\ creature'.position
                       = VAdd(VAdd(start, first), VScale(v2, params.timestep))
       /\ pc = "update_facing" => creature'.position = creature.position
       /\ pc = "insert" => creatures'[id].position = creature.position]_vars

\* a creature heading for a food source has been moved by more than its
\* final velocity times the timestep
C15_Witness ==
    /\ pc = "update_facing"
    /\ Steered
    /\ creature.movement_target.kind = "Food"
    /\ creature.velocity # ZERO
    /\ creature.position
          # VAdd(tick_start[id].position, VScale(creature.velocity, params.timestep))
    /\ creature.position # tick_start[id].position

\* the fields of a creature that no step of a tick writes
Traits(c) == << c.strength, c.dexterity, c.hunger_threshold, c.hunger_rate, c.color >>

\* this step is a step of update_world
TickStep == pc \notin {"new", "idle"} \/ (pc = "idle" /\ pc' = "loop")

\* while a tick runs the creatures are those of its start, with their traits
C16_FrameState ==
    /\ \A f \in DOMAIN food_sources :
          0 <= food_sources[f].amount
             /\ food_sources[f].amount <= food_sources[f].max_amount
    /\ pc \notin {"new", "idle"}
          => /\ DOMAIN creatures = DOMAIN tick_start
             /\ \A i \in DOMAIN creatures : Traits(creatures[i]) = Traits(tick_start[i])
             /\ InBody \/ pc = "insert"
                   => id \in DOMAIN creatures /\ Traits(creature) = Traits(tick_start[id])

\* a step of update_world keeps the registry's keys, next_id, the food
\* sources, the creatures' traits, params and bounds
C16_FrameStep ==
    TickStep
    => /\ next_id' = next_id
       /\ ret' = ret
       /\ DOMAIN creatures' = DOMAIN creatures
       /\ DOMAIN food_sources' = DOMAIN food_sources
       /\ \A f \in DOMAIN food_sources : food_sources'[f] = food_sources[f]
       /\ \A i \in DOMAIN creatures : Traits(creatures'[i]) = Traits(creatures[i])
       /\ params' = params
       /\ bounds' = bounds

(***************************************************************************)
(* C16.  Frame of a tick: update_world adds and removes no entity and      *)
(* allocates no id (the key sets of creatures and food_sources and next_id *)
(* are after the tick what they were before); every food source keeps      *)
(* position, amount and max_amount, so 0 <= amount <= max_amount stays;    *)
(* every creature keeps strength, dexterity, hunger_threshold,             *)
(* hunger_rate and color; params and bounds are unchanged.                 *)
(***************************************************************************)
C16_TickFrame == []C16_FrameState /\ [][C16_FrameStep]_vars

\* two ticks have run on a world of two creatures and two food sources, and
\* moved a creature
C16_Witness ==
    /\ AtRest
    /\ ticks = 2
    /\ Cardinality(DOMAIN creatures) = 2
    /\ Cardinality(DOMAIN food_sources) = 2
    /\ next_id = 4
    /\ \E i \in DOMAIN creatures :
          /\ creatures[i].position # tick_start[i].position
          /\ creatures[i].hunger # tick_start[i].hunger

\* creature c holds a Food or Creature target whose id its registry lacks
StaleTarget(c) == c.movement_target # NoTarget /\ Dangling(c.movement_target)

\* what a tick with no steering makes of the velocity and position of c
Drifted(c) ==
    LET v == VAdd(c.velocity,
                  VScale(VScale(ForceAt(c), params.timestep), params.damping))
    IN  [velocity |-> v, position |-> VAdd(c.position, VScale(v, params.timestep))]

\* a creature that a tick found content with a stale target has the same
\* target after the tick, and only the boundary force has moved it
C17_StaleState ==
    pc \in {"loop", "idle"} =>
        \A i \in DOMAIN tick_start \ Elements(creature_ids) :
            (StaleTarget(tick_start[i]) /\ ~is_hungry(update_hunger(tick_start[i])))
            => /\ creatures[i].movement_target = tick_start[i].movement_target
               /\ creatures[i].velocity = Drifted(tick_start[i]).velocity
               /\ creatures[i].position = Drifted(tick_start[i]).position

\* neither the selection of a content creature nor move_to_target touches a
\* creature whose target is stale
C17_StaleStep ==
    /\ (pc = "select" /\ ~is_hungry(creature) /\ StaleTarget(creature))
          => creature' = creature /\ pc' = "move_to_target"
    /\ (pc = "move_to_target" /\ StaleTarget(creature))
          => creature' = creature /\ pc' = "apply_bc"

(***************************************************************************)
(* C17.  Stale dangling target: move_to_target never clears or replaces a  *)
(* target whose id does not resolve and find_random_walk_target does       *)
(* nothing when a target is set; so a content creature holding Food(id)    *)
(* or Creature(id) with id absent from the registry keeps that target in   *)
(* every tick in which it is content, gets no wander target and no         *)
(* steering: only the boundary force moves it.                             *)
(***************************************************************************)
C17_StaleTargetKept == []C17_StaleState /\ [][C17_StaleStep]_vars

\* after two ticks a content creature still holds the food id that was never
\* in the registry, and the boundary force has moved it in both
C17_Witness ==
    /\ AtRest
    /\ ticks = 2
    /\ \E i \in DOMAIN creatures :
          /\ StaleTarget(creatures[i])
          /\ ~is_hungry(creatures[i])
          /\ creatures[i].movement_target = tick_start[i].movement_target
          /\ tick_start[i].velocity # ZERO
          /\ creatures[i].velocity # tick_start[i].velocity
          /\ creatures[i].position # tick_start[i].position

\* every creature of the world is hungry, and the world has been built
AllHungry == pc # "new" /\ \A i \in DOMAIN creatures : is_hungry(creatures[i])

\* at behaviour selection the hunger is in [0, 100], is below the hunger the
\* tick began with by 0.01 or more (or is 0), and a creature that began the
\* tick hungry is hungry
C18_HungerState ==
    pc = "select" =>
        /\ 0 <= creature.hunger /\ creature.hunger <= 100 * Scale
        /\ tick_start[id].hunger >= 0
              => /\ creature.hunger <= Max(tick_start[id].hunger - Scale \div 100, 0)
                 /\ is_hungry(tick_start[id]) => is_hungry(creature)

\* after the decay no step of the tick writes hunger, and a hungry creature
\* is given the nearest food source when there is one
C18_HungerStep ==
    /\ pc \in {"select", "move_to_target", "apply_bc", "update_facing"}
          => creature'.hunger = creature.hunger
    /\ pc = "insert" => creatures'[id].hunger = creature.hunger
    /\ (pc = "select" /\ is_hungry(creature) /\ DOMAIN food_sources # {})
          => /\ creature'.movement_target.kind = "Food"
             /\ creature'.movement_target.id \in DOMAIN food_sources
             /\ \A f \in DOMAIN food_sources :
                   distance_to_food(creature, food_sources[f])
                      >= distance_to_food(creature,
                                          food_sources[creature'.movement_target.id])

(***************************************************************************)
(* C18.  Hungry is absorbing: with hunger_rate >= 0 hunger never grows     *)
(* from one tick to the next, so a creature that is hungry at behaviour    *)
(* selection is hungry at every later one; hunger falls by at least 0.01   *)
(* per tick until it is 0, so with hunger_threshold >= 0 every creature    *)
(* is hungry from some tick on, and from then on, when there is a food     *)
(* source, every tick sets its target to the nearest Target::Food.         *)
(***************************************************************************)
C18_HungryAbsorbing ==
    /\ []C18_HungerState
    /\ [][C18_HungerStep]_vars
    /\ <>[]AllHungry
    /\ []<>(pc = "select" /\ is_hungry(creature))

\* a creature whose hunger has reached 0 was given the food source again,
\* after its arrival there had cleared its target
C18_Witness ==
    /\ pc = "move_to_target"
    /\ ticks = MaxTicks
    /\ is_hungry(tick_start[id])
    /\ creature.hunger = 0
    /\ creature.hunger_threshold > 0
    /\ tick_start[id].movement_target = NoTarget
    /\ creature.movement_target.kind = "Food"

=============================================================================
